---------------------------- MODULE Spec2Model ----------------------------
(***************************************************************************)
(* Model of the monotonic / monotonic_mock crates.                         *)
(*                                                                         *)
(*   monotonic      : Instant (tick + source tag in debug builds), Clock,  *)
(*                    ClockExt::elapsed_since, Arc<T: Clock>, StdClock,    *)
(*                    NEXT_MOCK_CLOCK_ID.                                  *)
(*   monotonic_mock : MockClock { local_epoch, elapsed: Mutex<Duration> }. *)
(*                                                                         *)
(* A std::time::Instant is a tick in 0..TickMax, a std::time::Duration a   *)
(* number in 0..DurMax.  The behaviour of the std operations the crates    *)
(* delegate to is the one of the toolchains that compile the crates (the   *)
(* exclusive range pattern `0..3` of the mock crate's test needs           *)
(* Rust >= 1.80): Instant - Instant and Instant::duration_since saturate   *)
(* to zero, Instant + Duration, Instant - Duration and Duration +=         *)
(* Duration panic on overflow, the checked_ forms return None.             *)
(*                                                                         *)
(* Threads are clients of the library: each one repeatedly makes one call. *)
(* A call that takes the mutex is several steps, so that calls interleave. *)
(* A panic ends the call and the thread that made it; its place is taken   *)
(* by a fresh thread, so that N calls are in progress at most.             *)
(***************************************************************************)
EXTENDS Integers, Sequences, FiniteSets, TLC

\* ------------------------------------------------------------------ bounds
NumThreads == 2      \* N: client threads
MaxAdvances == 2     \* K: advance() calls one thread makes
MaxArg == 2          \* largest duration passed to advance / arithmetic
MaxClocks == 2       \* mock clocks constructed in one run
MaxTimer == 1        \* last reading of the platform timer
DurMax == 4          \* Duration::MAX
MaxObs == 9          \* observations the reader of the handshake makes
TickMax == 4         \* largest tick std::time::Instant represents

Threads == 1..NumThreads
Durations == 0..DurMax
Args == 0..MaxArg
Ticks == 0..TickMax

VARIABLES
    debug,               \* cfg(debug_assertions): fixed for one run
    timer,               \* the platform's monotonic timer
    NEXT_MOCK_CLOCK_ID,  \* the process-wide identity counter
    clocks,              \* the MockClock instances, in construction order
    pc,                  \* thread -> position inside its current call
    loc,                 \* thread -> locals of the current call
    start,               \* the timestamp the client keeps (let start = ..)
    ret,                 \* the call that completed last, and its result
    hist,                \* history: what completed on each mock clock
    done,                \* thread -> advances it made (a client's counter)
    hs                   \* the channels and the two loops of the handshake

vars == <<debug, timer, NEXT_MOCK_CLOCK_ID, clocks, pc, loc, start,
          ret, hist, done, hs>>

\* ------------------------------------------------------- ClockSource, Instant
StdSource == [kind |-> "Std", id |-> 0]
MockSource(id) == [kind |-> "Mock", id |-> id]
\* optimized builds: the field does not exist
NoSource == [kind |-> "None", id |-> 0]

Instant(inner, source) == [inner |-> inner, source |-> source]

\* results of calls: a Duration, an Instant, Option::None, unit, or a panic
DurationVal(n) == [k |-> "Duration", inner |-> n, source |-> NoSource]
InstantVal(i) == [k |-> "Instant", inner |-> i.inner, source |-> i.source]
NoneVal == [k |-> "None", inner |-> 0, source |-> NoSource]
UnitVal == [k |-> "Unit", inner |-> 0, source |-> NoSource]
PanicVal == [k |-> "Panic", inner |-> 0, source |-> NoSource]
AsInstant(v) == Instant(v.inner, v.source)

\* a variant that compares the kinds of the tags only, so that two mock
\* clocks pass for one source
KindAssert(a, b) == debug => a.source.kind = b.source.kind

\* assert!(self.source == earlier.source), compiled in debug builds only
SourceAssert(a, b) == debug => a.source = b.source

\* a variant that does not saturate: the signed difference
RawDifference(x, y) == x - y

\* std::time::Instant::duration_since and Instant - Instant: saturating
StdDurationSince(x, y) == IF x >= y THEN x - y ELSE 0

\* a variant that takes equal timestamps for an underflow
checked_duration_since_strict(a, b) ==
    IF ~SourceAssert(a, b) THEN PanicVal
    ELSE IF a.inner > b.inner THEN DurationVal(a.inner - b.inner)
    ELSE NoneVal

duration_since(a, b) ==
    IF ~SourceAssert(a, b) THEN PanicVal
    ELSE DurationVal(StdDurationSince(a.inner, b.inner))

checked_duration_since(a, b) ==
    IF ~SourceAssert(a, b) THEN PanicVal
    ELSE IF a.inner >= b.inner THEN DurationVal(a.inner - b.inner)
    ELSE NoneVal

saturating_duration_since(a, b) ==
    IF ~SourceAssert(a, b) THEN PanicVal
    ELSE DurationVal(IF a.inner >= b.inner THEN a.inner - b.inner ELSE 0)

\* a variant without the upper end of the range
TickNonNegative(n) == n >= 0

\* the range check of std's Instant::checked_add / checked_sub
TickInRange(n) == n >= 0 /\ n <= TickMax

checked_add(a, d) ==
    IF TickInRange(a.inner + d) THEN InstantVal(Instant(a.inner + d, a.source))
    ELSE NoneVal

checked_sub(a, d) ==
    IF TickInRange(a.inner - d) THEN InstantVal(Instant(a.inner - d, a.source))
    ELSE NoneVal

\* a variant that stamps its result as the real clock's
InstantAddRetagged(a, d) ==
    IF TickInRange(a.inner + d) THEN InstantVal(Instant(a.inner + d, StdSource))
    ELSE PanicVal

\* a variant that leaves the timestamp where it is
InstantUnmoved(a, d) == InstantVal(a)

\* Instant + Duration (and +=): std panics "overflow when adding duration"
InstantAdd(a, d) ==
    IF TickInRange(a.inner + d) THEN InstantVal(Instant(a.inner + d, a.source))
    ELSE PanicVal

\* Instant - Duration (and -=)
InstantSubDuration(a, d) ==
    IF TickInRange(a.inner - d) THEN InstantVal(Instant(a.inner - d, a.source))
    ELSE PanicVal

\* a variant that panics when the right operand is the later one
InstantSubStrict(a, b) ==
    IF ~SourceAssert(a, b) \/ a.inner < b.inner THEN PanicVal
    ELSE DurationVal(a.inner - b.inner)

\* Instant - Instant
InstantSub(a, b) ==
    IF ~SourceAssert(a, b) THEN PanicVal
    ELSE DurationVal(StdDurationSince(a.inner, b.inner))

\* results of comparisons: an Ordering (-1: Less, 0: Equal, 1: Greater), a bool
OrderingVal(o) == [k |-> "Ordering", inner |-> o, source |-> NoSource]
BoolVal(b) == [k |-> "Bool", inner |-> IF b THEN 1 ELSE 0, source |-> NoSource]

\* Ord::cmp on integers
Cmp(x, y) == IF x < y THEN -1 ELSE IF x > y THEN 1 ELSE 0

\* #[derive(PartialOrd, Ord)] on ClockSource: the variants in the order of
\* their declaration (Std, Mock), two Mock by their id
SourceCmp(s1, s2) ==
    IF s1.kind = "Mock" /\ s2.kind = "Mock" THEN Cmp(s1.id, s2.id)
    ELSE IF s1.kind = s2.kind THEN 0
    ELSE IF s1.kind = "Std" THEN -1
    ELSE 1

\* a variant that looks at the ticks only
InstantCmpTicks(a, b) == Cmp(a.inner, b.inner)

\* #[derive(PartialOrd, Ord)] on Instant: the fields in the order of their
\* declaration, inner and then (debug builds) source
InstantCmp(a, b) ==
    IF Cmp(a.inner, b.inner) # 0 THEN Cmp(a.inner, b.inner)
    ELSE IF debug THEN SourceCmp(a.source, b.source)
    ELSE 0

\* #[derive(PartialEq, Eq)] on Instant: every field
InstantEq(a, b) == a.inner = b.inner /\ (debug => a.source = b.source)

\* Duration += Duration: std panics "overflow when adding durations"
DurationFits(n) == n <= DurMax

\* a variant of the sum that forgets the offset: *guard = duration
AdvanceSet(e, d) == d

\* *guard += duration: the sum that advance stores
AdvanceSum(e, d) == e + d


\* ------------------------------------------------------------------ state
NoInstant == Instant(0, NoSource)

\* locals of a call in progress
NoLoc == [op |-> "none", clk |-> 0, via |-> 0, d |-> 0, tmp |-> 0, id |-> 0]

\* the timestamp the client keeps, bound once (let start = clock.now());
\* clk is the clock that produced it (0: the real clock), at the advances
\* that clock's history held when it was read
NoStart == [set |-> FALSE, inst |-> NoInstant, clk |-> 0, at |-> 0]

\* a completed call: its name, its receiver (clk = 0: no mock clock; via = 0:
\* no Arc handle), its operands (a, b: timestamps, d: a duration), its result,
\* and for a call that read a mock clock the advances that the clock's
\* history held at the read
NoRet == [op |-> "none", clk |-> 0, via |-> 0, a |-> NoInstant, b |-> NoInstant,
          d |-> 0, out |-> UnitVal, seen |-> 0]

\* the handshake of tests::test before its threads are spawned: the
\* buffers of the channels (sync_channel(1)), where the reader (t1) and the
\* driver (t2) are in their loops, the driver's count, the number of
\* observations the reader made and the last of them
NoHandshake ==
    [ready |-> 0, update |-> 0, reader |-> "start", driver |-> "recv",
     count |-> 0, i |-> 0, last |-> 0]

\* history of one mock clock: the sum of the advances written so far, in
\* the lock's order
NoHist == 0

ClockIds == 1..Len(clocks)

\* MockClock { local_epoch, elapsed: Mutex::new(Duration::ZERO) }
MockClock(epoch) ==
    [local_epoch |-> epoch, elapsed |-> 0, lock |-> 0, poisoned |-> FALSE]

\* a variant in which every handle holds the first clock
FirstClock(h) == 1

\* An Arc<MockClock> is a pointer to the instance: a handle is the index of
\* the clock it holds, Arc::clone copies it.  impl Clock for Arc<T>: (**self)
Deref(h) == h

\* a receiver of now / advance / elapsed_since, and the instance the call is
\* on: a &MockClock (via = 0), or an Arc<MockClock> handle (via = the handle)
Direct == {[via |-> 0, clk |-> c] : c \in ClockIds}
Shared == {[via |-> h, clk |-> Deref(h)] : h \in ClockIds}
Receivers == Direct \cup Shared

Building == {t \in Threads : pc[t] = "new_epoch"}

Init ==
    /\ debug \in BOOLEAN
    /\ timer = 0
    /\ NEXT_MOCK_CLOCK_ID = 0
    /\ clocks = <<>>
    /\ pc = [t \in Threads |-> "idle"]
    /\ loc = [t \in Threads |-> NoLoc]
    /\ start = NoStart
    /\ ret = NoRet
    /\ hist = <<>>
    /\ done = [t \in Threads |-> 0]
    /\ hs = NoHandshake

\* a call of thread t returns, or panics (r.out is the panic)
Return(t, r) ==
    /\ ret' = r
    /\ loc' = [loc EXCEPT ![t] = NoLoc]
    /\ pc' = [pc EXCEPT ![t] = "idle"]

\* ------------------------------------------------------------ platform timer
\* std::time::Instant::now() never goes backwards
TimerTick ==
    /\ timer < MaxTimer
    /\ timer' = timer + 1
    /\ UNCHANGED <<debug, NEXT_MOCK_CLOCK_ID, clocks, pc, loc, start,
                   ret, hist, done, hs>>

\* ------------------------------------------------------------ construction
\* a variant of the store that counts twice
FetchAddTwice(n) == n + 2

\* a variant of the store that does not count
FetchAddUnchanged(n) == n

\* NEXT_MOCK_CLOCK_ID.fetch_add(1, Relaxed): the value it returns
FetchAddResult(n) == n
\* ... and the value it leaves (an AtomicU64 wraps at 2^64, which no run of
\* at most MaxClocks constructions reaches)
FetchAddStore(n) == n + 1

\* the epoch of a new mock clock
new_mock_epoch(id) == Instant(timer, MockSource(id))
StdClockNow == Instant(timer, IF debug THEN StdSource ELSE NoSource)

Construct(t, epoch) ==
    /\ clocks' = Append(clocks, MockClock(epoch))
    /\ hist' = Append(hist, NoHist)
    /\ Return(t, [NoRet EXCEPT !.op = "new", !.clk = Len(clocks) + 1])

\* MockClock::new() (new_shared() is Arc::new(MockClock::new())), up to the
\* fetch_add of new_mock_epoch
MockClockNew(t) ==
    /\ pc[t] = "idle"
    /\ Len(clocks) + Cardinality(Building) < MaxClocks
    /\ IF debug
       THEN /\ NEXT_MOCK_CLOCK_ID' = FetchAddStore(NEXT_MOCK_CLOCK_ID)
            /\ loc' = [loc EXCEPT ![t] =
                         [NoLoc EXCEPT !.op = "new",
                                       !.id = FetchAddResult(NEXT_MOCK_CLOCK_ID)]]
            /\ pc' = [pc EXCEPT ![t] = "new_epoch"]
            /\ UNCHANGED <<clocks, ret, hist>>
       ELSE /\ Construct(t, StdClockNow)
            /\ UNCHANGED NEXT_MOCK_CLOCK_ID
    /\ UNCHANGED <<debug, timer, start, done, hs>>

\* debug builds: the rest of new_mock_epoch and of Default::default
MockClockEpoch(t) ==
    /\ pc[t] = "new_epoch"
    /\ Construct(t, new_mock_epoch(loc[t].id))
    /\ UNCHANGED <<debug, timer, NEXT_MOCK_CLOCK_ID, start, done, hs>>

\* ------------------------------------------------------------- the mutex
\* a variant of the lock that excludes nobody
NoExclusion(c) == TRUE

\* Mutex::lock blocks until no thread holds the lock
MutexFree(c) == clocks[c].lock = 0

\* self.elapsed.lock().unwrap() on a poisoned mutex: unwrap panics and the
\* guard inside the error is dropped, so the lock stays free
PoisonPanic(t, c, l) ==
    /\ Return(t, [NoRet EXCEPT !.op = l.op, !.clk = c, !.via = l.via,
                               !.out = PanicVal])
    /\ UNCHANGED clocks

\* a variant that never poisons
UnlockClean(c, panicking) == [clocks EXCEPT ![c].lock = 0]

\* a variant that keeps the lock
StillLocked(c, panicking) == clocks

\* a variant that also clears the offset
UnlockAndReset(c, panicking) ==
    [clocks EXCEPT ![c].lock = 0, ![c].elapsed = 0,
                   ![c].poisoned = clocks[c].poisoned \/ panicking]

\* the guard is dropped: normally, or while the thread is panicking
Unlock(c, panicking) ==
    [clocks EXCEPT ![c].lock = 0,
                   ![c].poisoned = clocks[c].poisoned \/ panicking]

\* ------------------------------------------------------------- MockClock::now
\* now() up to the point where it holds the lock
NowBegin(t, c, l) ==
    /\ pc[t] = "idle"
    /\ MutexFree(c)
    /\ IF clocks[c].poisoned
       THEN PoisonPanic(t, c, l)
       ELSE /\ clocks' = [clocks EXCEPT ![c].lock = t]
            /\ loc' = [loc EXCEPT ![t] = l]
            /\ pc' = [pc EXCEPT ![t] = "now_read"]
            /\ UNCHANGED ret

NowLock(t, r) ==
    /\ NowBegin(t, r.clk, [NoLoc EXCEPT !.op = "now", !.clk = r.clk,
                                        !.via = r.via])
    /\ UNCHANGED <<debug, timer, NEXT_MOCK_CLOCK_ID, start, hist, done, hs>>

\* c.elapsed_since(start.inst): the call of now() it begins with
ElapsedSinceLock(t, r) ==
    /\ start.set
    /\ NowBegin(t, r.clk, [NoLoc EXCEPT !.op = "elapsed_since", !.clk = r.clk,
                                        !.via = r.via])
    /\ UNCHANGED <<debug, timer, NEXT_MOCK_CLOCK_ID, start, hist, done, hs>>

\* a variant that returns the epoch whatever the offset is
MockEpoch(c) == InstantVal(clocks[c].local_epoch)

\* self.local_epoch + *guard
MockNow(c) == InstantAdd(clocks[c].local_epoch, clocks[c].elapsed)

\* elapsed_since after its now() returned: debug_assert!, then now - instant
ElapsedSinceTail(now, instant) ==
    IF now.k = "Panic" THEN PanicVal
    ELSE IF ~SourceAssert(AsInstant(now), instant) THEN PanicVal
    ELSE InstantSub(AsInstant(now), instant)

\* the rest of now(): the addition under the lock (a panic poisons the
\* mutex), the guard is dropped, and for elapsed_since the subtraction
NowRead(t) ==
    /\ pc[t] = "now_read"
    /\ LET c == loc[t].clk
           now == MockNow(c)
           out == IF loc[t].op = "now" THEN now
                  ELSE ElapsedSinceTail(now, start.inst)
       IN /\ clocks' = Unlock(c, now.k = "Panic")
          /\ Return(t, [NoRet EXCEPT !.op = loc[t].op, !.clk = c,
                          !.via = loc[t].via, !.out = out, !.seen = hist[c],
                          !.b = IF loc[t].op = "now" THEN NoInstant
                                ELSE start.inst])
    /\ UNCHANGED <<debug, timer, NEXT_MOCK_CLOCK_ID, start, hist, done, hs>>

\* --------------------------------------------------------- MockClock::advance
\* advance up to the sum *guard + duration, computed under the lock: a
\* panic on overflow poisons the mutex (done, the caller's counter, is the
\* caller's to set)
AdvanceLock(t, r, d) ==
    /\ pc[t] = "idle"
    /\ MutexFree(r.clk)
    /\ LET c == r.clk
           l == [NoLoc EXCEPT !.op = "advance", !.clk = c, !.via = r.via,
                              !.d = d, !.tmp = AdvanceSum(clocks[c].elapsed, d)]
       IN IF clocks[c].poisoned
          THEN PoisonPanic(t, c, l)
          ELSE IF ~DurationFits(l.tmp)
          THEN /\ clocks' = Unlock(c, TRUE)
               /\ Return(t, [NoRet EXCEPT !.op = "advance", !.clk = c,
                                          !.via = r.via, !.out = PanicVal])
          ELSE /\ clocks' = [clocks EXCEPT ![c].lock = t]
               /\ loc' = [loc EXCEPT ![t] = l]
               /\ pc' = [pc EXCEPT ![t] = "advance_write"]
               /\ UNCHANGED ret
    /\ UNCHANGED <<debug, timer, NEXT_MOCK_CLOCK_ID, start, hist>>

\* *guard = the sum; the guard is dropped and advance returns
AdvanceWrite(t) ==
    /\ pc[t] = "advance_write"
    /\ LET c == loc[t].clk
       IN /\ clocks' = [Unlock(c, FALSE) EXCEPT ![c].elapsed = loc[t].tmp]
          /\ hist' = [hist EXCEPT ![c] = @ + loc[t].d]
          /\ Return(t, [NoRet EXCEPT !.op = "advance", !.clk = c,
                                     !.via = loc[t].via])
    /\ UNCHANGED <<debug, timer, NEXT_MOCK_CLOCK_ID, start, done, hs>>

\* ------------------------------------------------------------------ StdClock
\* StdClock.now()
StdNow(t) ==
    /\ pc[t] = "idle"
    /\ Return(t, [NoRet EXCEPT !.op = "now", !.out = InstantVal(StdClockNow)])
    /\ UNCHANGED <<debug, timer, NEXT_MOCK_CLOCK_ID, clocks, start,
                   hist, done, hs>>

\* StdClock.elapsed_since(start.inst)
StdElapsedSince(t) ==
    /\ pc[t] = "idle"
    /\ start.set
    /\ Return(t, [NoRet EXCEPT !.op = "elapsed_since", !.b = start.inst,
                    !.out = ElapsedSinceTail(InstantVal(StdClockNow),
                                             start.inst)])
    /\ UNCHANGED <<debug, timer, NEXT_MOCK_CLOCK_ID, clocks, start,
                   hist, done, hs>>

\* --------------------------------------------------------- kept timestamps
\* let start = clock.now(): the client keeps the timestamp it just got
Keep(t) ==
    /\ pc[t] = "idle"
    /\ ~start.set
    /\ ret.op = "now"
    /\ ret.out.k = "Instant"
    /\ start' = [set |-> TRUE, inst |-> AsInstant(ret.out), clk |-> ret.clk,
                 at |-> ret.seen]
    /\ UNCHANGED <<debug, timer, NEXT_MOCK_CLOCK_ID, clocks, pc, loc,
                   ret, hist, done, hs>>

\* the timestamps the client holds
Held ==
    (IF start.set THEN {start.inst} ELSE {})
    \cup (IF ret.out.k = "Instant" THEN {AsInstant(ret.out)} ELSE {})

\* ------------------------------------------------------- Instant arithmetic
Binary(t, op, a, b, out) ==
    /\ pc[t] = "idle"
    /\ Return(t, [NoRet EXCEPT !.op = op, !.a = a, !.b = b, !.out = out])
    /\ UNCHANGED <<debug, timer, NEXT_MOCK_CLOCK_ID, clocks, start,
                   hist, done, hs>>

WithDuration(t, op, a, d, out) ==
    /\ pc[t] = "idle"
    /\ Return(t, [NoRet EXCEPT !.op = op, !.a = a, !.d = d, !.out = out])
    /\ UNCHANGED <<debug, timer, NEXT_MOCK_CLOCK_ID, clocks, start,
                   hist, done, hs>>

DurationSince(t, a, b) == Binary(t, "duration_since", a, b, duration_since(a, b))

CheckedDurationSince(t, a, b) ==
    Binary(t, "checked_duration_since", a, b, checked_duration_since(a, b))

SaturatingDurationSince(t, a, b) ==
    Binary(t, "saturating_duration_since", a, b, saturating_duration_since(a, b))

Sub(t, a, b) == Binary(t, "sub", a, b, InstantSub(a, b))

CheckedAdd(t, a, d) == WithDuration(t, "checked_add", a, d, checked_add(a, d))

CheckedSub(t, a, d) == WithDuration(t, "checked_sub", a, d, checked_sub(a, d))

Add(t, a, d) == WithDuration(t, "add", a, d, InstantAdd(a, d))

SubDuration(t, a, d) ==
    WithDuration(t, "sub_duration", a, d, InstantSubDuration(a, d))

\* a.cmp(&b), a == b, a < b
Compare(t, a, b) == Binary(t, "cmp", a, b, OrderingVal(InstantCmp(a, b)))

Equal(t, a, b) == Binary(t, "eq", a, b, BoolVal(InstantEq(a, b)))

Less(t, a, b) == Binary(t, "lt", a, b, BoolVal(InstantCmp(a, b) = -1))

\* *self = *self + rhs / *self = *self - rhs, on the timestamp the client keeps
Assign(t, op, d, out) ==
    /\ pc[t] = "idle"
    /\ start.set
    /\ start' = IF out.k = "Panic" THEN start
                ELSE [start EXCEPT !.inst = AsInstant(out)]
    /\ Return(t, [NoRet EXCEPT !.op = op, !.a = start.inst, !.d = d,
                               !.out = IF out.k = "Panic" THEN out ELSE UnitVal])
    /\ UNCHANGED <<debug, timer, NEXT_MOCK_CLOCK_ID, clocks, hist, done, hs>>

AddAssign(t, d) == Assign(t, "add_assign", d, InstantAdd(start.inst, d))

SubAssign(t, d) ==
    Assign(t, "sub_assign", d, InstantSubDuration(start.inst, d))

\* ------------------------------------------------------------ specifications
\* Clients that construct, read and advance clocks, directly and through
\* Arc handles
NextClock ==
    \/ TimerTick
    \/ \E t \in Threads : MockClockNew(t)
    \/ \E t \in Threads : MockClockEpoch(t)
    \/ \E t \in Threads, r \in Receivers : NowLock(t, r)
    \/ \E t \in Threads : NowRead(t)
    \/ \E t \in Threads, r \in Receivers, d \in Args :
          AdvanceLock(t, r, d) /\ UNCHANGED <<done, hs>>
    \/ \E t \in Threads : AdvanceWrite(t)
    \/ \E t \in Threads : StdNow(t)

SpecClock == Init /\ [][NextClock]_vars

\* ... and that keep a timestamp and ask for the time elapsed since
Next ==
    \/ NextClock
    \/ \E t \in Threads : Keep(t)
    \/ \E t \in Threads, r \in Receivers : ElapsedSinceLock(t, r)
    \/ \E t \in Threads : StdElapsedSince(t)

Spec == Init /\ [][Next]_vars

\* The mock clocks of a run, constructed one after the other
Built(n) ==
    /\ timer \in 0..MaxTimer
    /\ NEXT_MOCK_CLOCK_ID = IF debug THEN n ELSE 0
    /\ \E e \in [1..n -> 0..timer] :
         /\ \A c \in 1..(n - 1) : e[c] <= e[c + 1]
         /\ clocks = [c \in 1..n |->
                        MockClock(IF debug THEN Instant(e[c], MockSource(c - 1))
                                  ELSE Instant(e[c], NoSource))]
    /\ hist = [c \in 1..n |-> NoHist]
    /\ pc = [t \in Threads |-> "idle"]
    /\ loc = [t \in Threads |-> NoLoc]
    /\ done = [t \in Threads |-> 0]
    /\ hs = NoHandshake

\* One mock clock shared by the threads, which read it, advance it, keep a
\* timestamp and ask for the time elapsed since
InitShared ==
    /\ debug \in BOOLEAN
    /\ Built(1)
    /\ start = NoStart
    /\ ret = [NoRet EXCEPT !.op = "new", !.clk = 1]

NextShared ==
    \/ \E t \in Threads, r \in Shared : NowLock(t, r)
    \/ \E t \in Threads : NowRead(t)
    \/ \E t \in Threads, r \in Shared, d \in Args :
          AdvanceLock(t, r, d) /\ UNCHANGED <<done, hs>>
    \/ \E t \in Threads : AdvanceWrite(t)
    \/ \E t \in Threads : Keep(t)
    \/ \E t \in Threads, r \in Shared : ElapsedSinceLock(t, r)

SpecShared == InitShared /\ [][NextShared]_vars

\* The concurrency scenario: on a shared mock clock, start = clock.now(),
\* then NumThreads threads that each call advance(1) MaxAdvances times, and
\* after they are joined clock.elapsed_since(start)
InitUnit ==
    /\ debug \in BOOLEAN
    /\ Built(1)
    /\ start = [set |-> TRUE, inst |-> clocks[1].local_epoch, clk |-> 1,
                at |-> 0]
    /\ ret = [NoRet EXCEPT !.op = "now", !.clk = 1, !.via = 1,
                           !.out = InstantVal(clocks[1].local_epoch)]

UnitAdvance(t) ==
    /\ done[t] < MaxAdvances
    /\ \E r \in Shared : AdvanceLock(t, r, 1)
    /\ done' = [done EXCEPT ![t] = @ + 1]
    /\ UNCHANGED hs

Joined == \A t \in Threads : done[t] = MaxAdvances /\ pc[t] = "idle"

UnitElapsed(t) ==
    /\ Joined
    /\ \E r \in Shared : ElapsedSinceLock(t, r)

NextUnit ==
    \/ \E t \in Threads : UnitAdvance(t)
    \/ \E t \in Threads : AdvanceWrite(t)
    \/ \E t \in Threads : UnitElapsed(t)
    \/ \E t \in Threads : NowRead(t)

SpecUnit == InitUnit /\ [][NextUnit]_vars

\* Several mock clocks and the real clock: the threads read and advance
\* them, keep a timestamp of one and ask any of them for the time elapsed
InitCross ==
    /\ debug \in BOOLEAN
    /\ Built(MaxClocks)
    /\ start = NoStart
    /\ ret = [NoRet EXCEPT !.op = "new", !.clk = MaxClocks]

NextCross ==
    \/ \E t \in Threads, r \in Direct : NowLock(t, r)
    \/ \E t \in Threads : NowRead(t)
    \/ \E t \in Threads, r \in Direct, d \in Args :
          AdvanceLock(t, r, d) /\ UNCHANGED <<done, hs>>
    \/ \E t \in Threads : AdvanceWrite(t)
    \/ \E t \in Threads : StdNow(t)
    \/ \E t \in Threads : Keep(t)
    \/ \E t \in Threads, r \in Direct : ElapsedSinceLock(t, r)
    \/ \E t \in Threads : StdElapsedSince(t)

SpecCross == InitCross /\ [][NextCross]_vars

\* ... in a diagnostic build, where they also subtract the timestamps they
\* hold
NextSince ==
    \/ NextCross
    \/ \E t \in Threads, a \in Held, b \in Held : DurationSince(t, a, b)
    \/ \E t \in Threads, a \in Held, b \in Held : CheckedDurationSince(t, a, b)
    \/ \E t \in Threads, a \in Held, b \in Held : SaturatingDurationSince(t, a, b)
    \/ \E t \in Threads, a \in Held, b \in Held : Sub(t, a, b)

InitSince == InitCross /\ debug

SpecSince == InitSince /\ [][NextSince]_vars

\* Timestamp arithmetic: the mock clocks have been constructed, the client
\* holds any two timestamps of the build (the one it keeps, and the one it
\* got last) and applies one operation after the other
Sources ==
    IF debug THEN {StdSource} \cup {MockSource(i) : i \in 0..(MaxClocks - 1)}
    ELSE {NoSource}

InitArith ==
    /\ debug \in BOOLEAN
    /\ Built(MaxClocks)
    /\ \E i \in Ticks, s \in Sources :
         start = [set |-> TRUE, inst |-> Instant(i, s), clk |-> -1, at |-> 0]
    /\ \E i \in Ticks, s \in Sources :
         ret = [NoRet EXCEPT !.op = "held", !.out = InstantVal(Instant(i, s))]

NextArith ==
    \/ \E t \in Threads, a \in Held, b \in Held : DurationSince(t, a, b)
    \/ \E t \in Threads, a \in Held, b \in Held : CheckedDurationSince(t, a, b)
    \/ \E t \in Threads, a \in Held, b \in Held : SaturatingDurationSince(t, a, b)
    \/ \E t \in Threads, a \in Held, b \in Held : Sub(t, a, b)
    \/ \E t \in Threads, a \in Held, d \in Args : CheckedAdd(t, a, d)
    \/ \E t \in Threads, a \in Held, d \in Args : CheckedSub(t, a, d)
    \/ \E t \in Threads, a \in Held, d \in Args : Add(t, a, d)
    \/ \E t \in Threads, a \in Held, d \in Args : SubDuration(t, a, d)
    \/ \E t \in Threads, d \in Args : AddAssign(t, d)
    \/ \E t \in Threads, d \in Args : SubAssign(t, d)

SpecArith == InitArith /\ [][NextArith]_vars

\* ------------------------------------------------------------- properties
\* the call that completed last read mock clock c
OnMock(op) == ret.op = op /\ ret.clk > 0

\* the timestamp a read of clock c returns when the history of c holds
\* advances that sum to n
EpochPlus(c, n) ==
    InstantVal(Instant(clocks[c].local_epoch.inner + n,
                       clocks[c].local_epoch.source))

\* C1: NumThreads threads that each advance a shared mock clock MaxAdvances
\* times by one unit lose no increment: once they are joined,
\* elapsed_since(start) returns NumThreads * MaxAdvances (a call that fails
\* because the offset left the representable range leaves the lock poisoned)
NoLostAdvance ==
    (OnMock("elapsed_since") /\ Joined)
        => \/ ret.out = DurationVal(NumThreads * MaxAdvances)
           \/ clocks[ret.clk].poisoned

NoLostAdvanceReached ==
    /\ OnMock("elapsed_since")
    /\ Joined
    /\ ret.out = DurationVal(NumThreads * MaxAdvances)
    /\ hist[ret.clk] = NumThreads * MaxAdvances

\* C2: on one clock, a timestamp read with no advance since start differs
\* from start by zero, and elapsed_since(start) returns the sum of the
\* advances written between the read of start and its own read
ElapsedIsSumOfAdvances ==
    /\ (OnMock("now") /\ ret.out.k = "Instant" /\ start.set
          /\ start.clk = ret.clk /\ ret.seen = start.at)
         => InstantSub(AsInstant(ret.out), start.inst) = DurationVal(0)
    /\ (OnMock("elapsed_since") /\ ret.out.k = "Duration"
          /\ start.clk = ret.clk)
         => ret.out.inner = ret.seen - start.at

ElapsedIsSumOfAdvancesReached ==
    /\ OnMock("elapsed_since")
    /\ start.clk = ret.clk
    /\ start.at = 1
    /\ ret.seen = 3
    /\ ret.out = DurationVal(2)

\* C3: in a diagnostic build the epochs of any two mock clocks carry Mock
\* tags with different identities
DistinctMockTags ==
    debug => \A c1 \in ClockIds, c2 \in ClockIds :
                /\ clocks[c1].local_epoch.source.kind = "Mock"
                /\ c1 # c2 => clocks[c1].local_epoch.source
                                 # clocks[c2].local_epoch.source

DistinctMockTagsReached ==
    /\ debug
    /\ Len(clocks) = MaxClocks
    /\ clocks[1].local_epoch.source # clocks[MaxClocks].local_epoch.source

\* the tag of the timestamps a clock returns (clock 0 is the real clock)
SourceOf(c) == IF c = 0 THEN StdSource ELSE clocks[c].local_epoch.source

\* C4: in a diagnostic build duration_since, checked_duration_since,
\* saturating_duration_since and Instant - Instant on timestamps of
\* different sources panic, and so does elapsed_since on a clock of another
\* source than its argument's
CrossSourcePanics ==
    /\ (debug /\ ret.a.source # ret.b.source
          /\ ret.op \in {"duration_since", "checked_duration_since",
                         "saturating_duration_since", "sub"})
         => ret.out = PanicVal
    /\ (debug /\ ret.op = "elapsed_since" /\ SourceOf(ret.clk) # ret.b.source)
         => ret.out = PanicVal

CrossSourcePanicsReached ==
    /\ debug
    /\ OnMock("elapsed_since")
    /\ start.clk > 0
    /\ start.clk # ret.clk
    /\ ~clocks[ret.clk].poisoned
    /\ ret.out = PanicVal

\* the call that completed last is c2.elapsed_since(c1.now()) for two mock
\* clocks of an optimized build
CrossElapsed ==
    /\ ~debug
    /\ OnMock("elapsed_since")
    /\ start.clk > 0
    /\ start.clk # ret.clk

\* C5 as the specification states it: in an optimized build
\* c2.elapsed_since(c1.now()) returns a duration after every sequence of
\* advances on either clock
CrossElapsedNeverPanics == CrossElapsed => ret.out.k = "Duration"

\* C5: in an optimized build c2.elapsed_since(c1.now()) returns the
\* difference of the raw ticks, zero when c1.now() is the later one, unless
\* the read of c2 itself panics, which leaves the lock of c2 poisoned
CrossElapsedRawTicks ==
    CrossElapsed =>
        LET now == clocks[ret.clk].local_epoch.inner + ret.seen
        IN \/ ret.out = DurationVal(IF now >= ret.b.inner
                                    THEN now - ret.b.inner ELSE 0)
           \/ ret.out = PanicVal /\ clocks[ret.clk].poisoned

CrossElapsedRawTicksReached ==
    /\ CrossElapsed
    /\ ret.b.inner > clocks[ret.clk].local_epoch.inner + ret.seen
    /\ ret.out = DurationVal(0)

\* the call that completed last applied op to two timestamps that pass the
\* source assertion
OnPair(op) == ret.op = op /\ SourceAssert(ret.a, ret.b)

\* C6: on timestamps of one source, when a precedes b
\* a.checked_duration_since(b) is None and a.saturating_duration_since(b) is
\* zero; otherwise both are the difference a - b
CheckedAndSaturatingSince ==
    /\ OnPair("checked_duration_since")
         => ret.out = IF ret.a.inner < ret.b.inner THEN NoneVal
                      ELSE InstantSub(ret.a, ret.b)
    /\ OnPair("saturating_duration_since")
         => ret.out = IF ret.a.inner < ret.b.inner THEN DurationVal(0)
                      ELSE InstantSub(ret.a, ret.b)
    /\ (OnPair("checked_duration_since") \/ OnPair("saturating_duration_since"))
         => (ret.a.inner >= ret.b.inner
               => ret.out = DurationVal(ret.a.inner - ret.b.inner))

CheckedAndSaturatingSinceReached ==
    /\ OnPair("checked_duration_since")
    /\ ret.a.inner = ret.b.inner
    /\ ret.out = DurationVal(0)

\* C7 as the specification states it: a - b on timestamps of one source
\* panics when a precedes b
SubPanicsOnUnderflow ==
    (OnPair("sub") /\ ret.a.inner < ret.b.inner) => ret.out = PanicVal

\* C7: a - b on timestamps of one source is the zero duration when a
\* precedes b, and the difference of the ticks otherwise
SubSaturates ==
    OnPair("sub")
        => ret.out = DurationVal(IF ret.a.inner < ret.b.inner THEN 0
                                 ELSE ret.a.inner - ret.b.inner)

SubSaturatesReached ==
    /\ OnPair("sub")
    /\ ret.a.inner < ret.b.inner
    /\ ret.out = DurationVal(0)

\* C8: checked_add and checked_sub return None exactly when the tick left the
\* representable range, and otherwise the timestamp moved by d with the tag
\* of the operand
CheckedAddSub ==
    /\ ret.op = "checked_add"
         => ret.out = IF ret.a.inner + ret.d \in Ticks
                      THEN InstantVal(Instant(ret.a.inner + ret.d, ret.a.source))
                      ELSE NoneVal
    /\ ret.op = "checked_sub"
         => ret.out = IF ret.a.inner - ret.d \in Ticks
                      THEN InstantVal(Instant(ret.a.inner - ret.d, ret.a.source))
                      ELSE NoneVal

CheckedAddSubReached ==
    /\ ret.op = "checked_add"
    /\ ret.d > 0
    /\ ret.a.inner + ret.d > TickMax
    /\ ret.out = NoneVal

\* C9: now() through an Arc handle returns what now() on the instance the
\* handle holds returns: the epoch and the tag of that instance, moved by
\* the advances written to it, through whichever handle they were made
HandleIsHeldClock ==
    (ret.op = "now" /\ ret.via > 0 /\ ret.out.k = "Instant")
        => /\ ret.clk = ret.via
           /\ ret.out = EpochPlus(ret.via, ret.seen)

HandleIsHeldClockReached ==
    /\ ret.op = "now"
    /\ ret.via = MaxClocks
    /\ ret.seen > 0
    /\ ret.out = EpochPlus(MaxClocks, ret.seen)
    /\ clocks[1].local_epoch # clocks[MaxClocks].local_epoch

\* C10: now() on a mock clock returns local_epoch moved by the sum of the
\* advances that took the lock before it did, with the tag of local_epoch
NowIsEpochPlusAdvances ==
    (OnMock("now") /\ ret.out.k = "Instant")
        => /\ ret.out.inner = clocks[ret.clk].local_epoch.inner + ret.seen
           /\ ret.out.source = clocks[ret.clk].local_epoch.source

NowIsEpochPlusAdvancesReached ==
    /\ OnMock("now")
    /\ ret.seen = DurMax
    /\ ret.out.inner = clocks[ret.clk].local_epoch.inner + DurMax

\* no step lowers the offset of a mock clock
OffsetNeverLowered ==
    \A c \in ClockIds : clocks'[c].elapsed >= clocks[c].elapsed

\* the call that completed last is a now() on the clock that produced the
\* timestamp the client keeps: a later read of the same clock
LaterNow ==
    /\ start.set
    /\ OnMock("now")
    /\ ret.clk = start.clk
    /\ ret.out.k = "Instant"

\* C11: the offset of a mock clock never decreases, and a now() that
\* starts after another now() on the same clock returned yields a
\* timestamp that is not before the first one, whatever advances
\* interleave
MonotonicOffset ==
    /\ [][OffsetNeverLowered]_vars
    /\ [](LaterNow => ret.out.inner >= start.inst.inner)

MonotonicOffsetReached ==
    /\ LaterNow
    /\ start.at > 0
    /\ ret.seen > start.at
    /\ ret.out.inner > start.inst.inner

\* A diagnostic build in which the threads read and advance a mock clock,
\* read the real clock, keep a timestamp and move the timestamps they hold
\* by durations
InitTags ==
    /\ debug = TRUE
    /\ Built(1)
    /\ start = NoStart
    /\ ret = [NoRet EXCEPT !.op = "new", !.clk = 1]

NextTags ==
    \/ \E t \in Threads, r \in Direct : NowLock(t, r)
    \/ \E t \in Threads : NowRead(t)
    \/ \E t \in Threads, r \in Direct, d \in Args :
          AdvanceLock(t, r, d) /\ UNCHANGED <<done, hs>>
    \/ \E t \in Threads : AdvanceWrite(t)
    \/ \E t \in Threads : StdNow(t)
    \/ \E t \in Threads : Keep(t)
    \/ \E t \in Threads, a \in Held, d \in Args : CheckedAdd(t, a, d)
    \/ \E t \in Threads, a \in Held, d \in Args : CheckedSub(t, a, d)
    \/ \E t \in Threads, a \in Held, d \in Args : Add(t, a, d)
    \/ \E t \in Threads, a \in Held, d \in Args : SubDuration(t, a, d)
    \/ \E t \in Threads, d \in Args : AddAssign(t, d)
    \/ \E t \in Threads, d \in Args : SubAssign(t, d)

SpecTags == InitTags /\ [][NextTags]_vars

\* C12: in a diagnostic build + duration, - duration, checked_add and
\* checked_sub return a timestamp with the tag of their operand, += and -=
\* leave the tag of the timestamp they move, now() on a mock clock returns
\* the Mock tag of that instance and now() on the real clock the Std tag
TagPreserved ==
    /\ (debug /\ ret.out.k = "Instant"
          /\ ret.op \in {"add", "sub_duration", "checked_add", "checked_sub"})
         => ret.out.source = ret.a.source
    /\ (debug /\ start.set /\ start.clk >= 0)
         => start.inst.source = SourceOf(start.clk)
    /\ (debug /\ OnMock("now") /\ ret.out.k = "Instant")
         => /\ ret.out.source.kind = "Mock"
            /\ ret.out.source = clocks[ret.clk].local_epoch.source
    /\ (debug /\ ret.op = "now" /\ ret.clk = 0) => ret.out.source = StdSource

TagPreservedReached ==
    /\ debug
    /\ ret.op = "add_assign"
    /\ ret.d > 0
    /\ ret.out = UnitVal
    /\ start.clk > 0
    /\ start.at > 0
    /\ start.inst.inner = ret.a.inner + ret.d
    /\ start.inst.source = clocks[start.clk].local_epoch.source

\* The whole life of the clocks, from process start: the threads construct
\* mock clocks, read and advance them, read the real clock, keep a timestamp
\* and ask any clock for the time elapsed since
NextFrame ==
    \/ TimerTick
    \/ \E t \in Threads : MockClockNew(t)
    \/ \E t \in Threads : MockClockEpoch(t)
    \/ NextCross

SpecFrame == Init /\ [][NextFrame]_vars

\* A diagnostic build from process start, in which the threads also subtract
\* and move the timestamps they hold
InitCounter == Init /\ debug

NextCounter ==
    \/ \E t \in Threads : MockClockNew(t)
    \/ \E t \in Threads : MockClockEpoch(t)
    \/ NextCross
    \/ \E t \in Threads, a \in Held, b \in Held : Sub(t, a, b)
    \/ \E t \in Threads, d \in Args : SubAssign(t, d)

SpecCounter == InitCounter /\ [][NextCounter]_vars

\* a step in which some thread's construction takes its identity
TakesIdentity ==
    \E t \in Threads : pc[t] = "idle" /\ pc'[t] = "new_epoch"

\* C13: the identity counter of a diagnostic build is zero at process
\* start, the construction of a mock clock adds exactly one to it, every
\* other step leaves it as it is, and so it counts the constructions made
CounterCountsConstructions ==
    /\ NEXT_MOCK_CLOCK_ID = 0
    /\ [][IF TakesIdentity
          THEN NEXT_MOCK_CLOCK_ID' = NEXT_MOCK_CLOCK_ID + 1
          ELSE NEXT_MOCK_CLOCK_ID' = NEXT_MOCK_CLOCK_ID]_vars
    /\ [](NEXT_MOCK_CLOCK_ID = Len(clocks) + Cardinality(Building))

CounterCountsConstructionsReached ==
    /\ NEXT_MOCK_CLOCK_ID = MaxClocks
    /\ Len(clocks) = MaxClocks
    /\ ret.op = "sub_assign"
    /\ \E c \in ClockIds : hist[c] > 0

\* The client holds any two timestamps of the build, compares them and
\* subtracts them
NextOrd ==
    \/ \E t \in Threads, a \in Held, b \in Held : Compare(t, a, b)
    \/ \E t \in Threads, a \in Held, b \in Held : Equal(t, a, b)
    \/ \E t \in Threads, a \in Held, b \in Held : Less(t, a, b)
    \/ \E t \in Threads, a \in Held, b \in Held : Sub(t, a, b)

SpecOrd == InitArith /\ [][NextOrd]_vars

\* the order the specification gives two timestamps: by tick, and for equal
\* ticks in a diagnostic build by tag, the real clock first and the mock
\* clocks by identity
TickThenTag(a, b) ==
    IF a.inner < b.inner THEN -1
    ELSE IF a.inner > b.inner THEN 1
    ELSE IF a.source = b.source THEN 0
    ELSE IF a.source = StdSource THEN -1
    ELSE IF b.source = StdSource THEN 1
    ELSE IF a.source.id < b.source.id THEN -1
    ELSE 1

\* C14: comparing two timestamps always returns a value: cmp orders them by
\* tick and then by tag, == holds exactly for the same tick and the same
\* tag, < agrees with cmp, and the order is total (cmp is Equal exactly when
\* == holds, and swapping the operands reverses it), whether or not
\* subtracting the same pair panics
ComparisonTotal ==
    /\ ret.op = "cmp" => ret.out = OrderingVal(TickThenTag(ret.a, ret.b))
    /\ ret.op = "eq" => ret.out = BoolVal(ret.a = ret.b)
    /\ ret.op = "lt" => ret.out = BoolVal(TickThenTag(ret.a, ret.b) = -1)
    /\ ret.op \in {"cmp", "eq", "lt"}
         => /\ (InstantCmp(ret.a, ret.b) = 0) = InstantEq(ret.a, ret.b)
            /\ InstantCmp(ret.b, ret.a) = 0 - InstantCmp(ret.a, ret.b)

ComparisonTotalReached ==
    /\ debug
    /\ ret.op = "cmp"
    /\ ret.a.inner = ret.b.inner
    /\ ret.a.source = MockSource(1)
    /\ ret.b.source = MockSource(0)
    /\ ret.out = OrderingVal(1)
    /\ InstantSub(ret.a, ret.b) = PanicVal

\* a step changes the offset of clock c only if it is the write of an
\* advance on c, and no step changes the epoch of c
OnlyAdvanceWrites(c) ==
    /\ clocks'[c].local_epoch = clocks[c].local_epoch
    /\ clocks'[c].elapsed # clocks[c].elapsed
         => \E t \in Threads : /\ pc[t] = "advance_write"
                               /\ loc[t].clk = c
                               /\ pc'[t] = "idle"

\* C15: the epoch of a mock clock never changes and only an advance on the
\* clock itself changes its offset, whatever is done to other clocks, so a
\* now() with no advance of the clock since an earlier now() returns the
\* same timestamp
AdvanceOnlyChangesTime ==
    /\ [][\A c \in ClockIds : OnlyAdvanceWrites(c)]_vars
    /\ []((LaterNow /\ ret.seen = start.at)
            => ret.out = InstantVal(start.inst))

AdvanceOnlyChangesTimeReached ==
    /\ LaterNow
    /\ ret.seen = start.at
    /\ start.at > 0
    /\ ret.out = InstantVal(start.inst)
    /\ \E c \in ClockIds : c # ret.clk /\ hist[c] > 0

\* ------------------------------------------------- the handshake of tests::test
\* t1 (the reader) and t2 (the driver), and the handle both use
Reader == 1
Driver == 2
arc_mock == [via |-> 1, clk |-> Deref(1)]

\* a variant of the driver's match with an inclusive range: 0..=3 => count + 1
CountMatchInclusive(count) ==
    IF count >= 0 /\ count <= 3 THEN [count |-> count + 1, driver |-> "send"]
    ELSE [count |-> count, driver |-> "panic"]

\* the driver's match: 0..3 => count + 1, 3 => { advance; 0 }, _ => panic!
CountMatch(count) ==
    IF count >= 0 /\ count < 3 THEN [count |-> count + 1, driver |-> "send"]
    ELSE IF count = 3 THEN [count |-> 0, driver |-> "advance"]
    ELSE [count |-> count, driver |-> "panic"]

\* let start = arc_mock_clone.now(): the call, up to the lock
ReaderStart ==
    /\ hs.reader = "start"
    /\ NowBegin(Reader, arc_mock.clk,
                [NoLoc EXCEPT !.op = "now", !.clk = arc_mock.clk,
                              !.via = arc_mock.via])
    /\ hs' = [hs EXCEPT !.reader = "loop"]
    /\ UNCHANGED <<debug, timer, NEXT_MOCK_CLOCK_ID, start, hist, done>>

\* arc_mock_clone.elapsed_since(start): the call, up to the lock
ReaderObserve ==
    /\ hs.reader = "loop"
    /\ hs.i < MaxObs
    /\ start.set
    /\ NowBegin(Reader, arc_mock.clk,
                [NoLoc EXCEPT !.op = "elapsed_since", !.clk = arc_mock.clk,
                              !.via = arc_mock.via])
    /\ hs' = [hs EXCEPT !.reader = "send"]
    /\ UNCHANGED <<debug, timer, NEXT_MOCK_CLOCK_ID, start, hist, done>>

\* the observation is printed (a panic of elapsed_since ends the thread);
\* tx_ready.send(()).unwrap() blocks while the buffer is full
ReaderSend ==
    /\ hs.reader = "send"
    /\ pc[Reader] = "idle"
    /\ IF ret.out.k # "Duration"
       THEN hs' = [hs EXCEPT !.reader = "dead"]
       ELSE /\ hs.ready = 0
            /\ hs' = [hs EXCEPT !.ready = 1, !.reader = "recv",
                                !.i = @ + 1, !.last = ret.out.inner]
    /\ UNCHANGED <<debug, timer, NEXT_MOCK_CLOCK_ID, clocks, pc, loc, start,
                   ret, hist, done>>

\* rx_update.recv().unwrap(): blocks until there is a message; an error when
\* the driver is gone
ReaderRecv ==
    /\ hs.reader = "recv"
    /\ IF hs.update = 1
       THEN hs' = [hs EXCEPT !.update = 0, !.reader = "loop"]
       ELSE /\ hs.driver \in {"dead", "panic"}
            /\ hs' = [hs EXCEPT !.reader = "dead"]
    /\ UNCHANGED <<debug, timer, NEXT_MOCK_CLOCK_ID, clocks, pc, loc, start,
                   ret, hist, done>>

\* rx_ready.recv().unwrap(), and the match on count up to its arms
DriverRecv ==
    /\ hs.driver = "recv"
    /\ IF hs.ready = 1
       THEN hs' = [hs EXCEPT !.ready = 0,
                     !.driver = CountMatch(hs.count).driver,
                     !.count = IF CountMatch(hs.count).driver = "send"
                               THEN CountMatch(hs.count).count ELSE @]
       ELSE /\ hs.reader = "dead"
            /\ hs' = [hs EXCEPT !.driver = "dead"]
    /\ UNCHANGED <<debug, timer, NEXT_MOCK_CLOCK_ID, clocks, pc, loc, start,
                   ret, hist, done>>

\* arc_mock.advance(Duration::from_secs(1)), up to the write
DriverAdvance ==
    /\ hs.driver = "advance"
    /\ AdvanceLock(Driver, arc_mock, 1)
    /\ hs' = [hs EXCEPT !.driver = "advanced"]
    /\ UNCHANGED done

\* the arm of the match ends (a panic of advance ends the thread);
\* tx_update.send(()).unwrap()
DriverSend ==
    /\ hs.driver \in {"send", "advanced"}
    /\ pc[Driver] = "idle"
    /\ IF hs.driver = "advanced" /\ ret.out = PanicVal
       THEN hs' = [hs EXCEPT !.driver = "dead"]
       ELSE /\ hs.update = 0
            /\ hs' = [hs EXCEPT !.update = 1, !.driver = "recv",
                         !.count = IF hs.driver = "advanced"
                                   THEN CountMatch(hs.count).count ELSE @]
    /\ UNCHANGED <<debug, timer, NEXT_MOCK_CLOCK_ID, clocks, pc, loc, start,
                   ret, hist, done>>

\* let arc_mock = MockClock::new_shared(), and the two threads spawned
InitHandshake ==
    /\ debug \in BOOLEAN
    /\ Built(1)
    /\ start = NoStart
    /\ ret = [NoRet EXCEPT !.op = "new", !.clk = 1]

NextHandshake ==
    \/ ReaderStart
    \/ NowRead(Reader)
    \/ Keep(Reader)
    \/ ReaderObserve
    \/ ReaderSend
    \/ ReaderRecv
    \/ DriverRecv
    \/ DriverAdvance
    \/ AdvanceWrite(Driver)
    \/ DriverSend

\* a thread that can take a step is scheduled
SpecHandshake ==
    InitHandshake /\ [][NextHandshake]_vars /\ WF_vars(NextHandshake)

\* C16: in the handshake the i-th observation of the reader is i \div 4
\* seconds, the driver's count stays in 0..3 and its panic arm is never
\* taken, neither thread dies, and the handshake goes on: the reader makes
\* every one of its MaxObs observations
HandshakeObserves ==
    /\ [](/\ hs.count \in 0..3
          /\ hs.driver \notin {"panic", "dead"}
          /\ hs.reader # "dead"
          /\ hs.i > 0 => hs.last = (hs.i - 1) \div 4)
    /\ <>(hs.i = MaxObs)

HandshakeObservesReached ==
    /\ hs.i = MaxObs
    /\ hs.last = (MaxObs - 1) \div 4
    /\ hs.last >= 2
    /\ hist[arc_mock.clk] = hs.last

\* The shared mock clock under fair scheduling: a thread that holds the
\* lock goes on to the end of its call, and a thread that keeps calling
\* now() is granted the lock when it is free again and again
FairShared ==
    /\ SpecShared
    /\ \A t \in Threads :
          /\ WF_vars(NowRead(t))
          /\ WF_vars(AdvanceWrite(t))
          /\ SF_vars(\E r \in Shared : NowLock(t, r))

\* the lock of clock c is held by a thread that is inside a call on c
HolderInCall(c) ==
    MutexFree(c) \/ \E t \in Threads : /\ clocks[c].lock = t
                                       /\ pc[t] # "idle"
                                       /\ loc[t].clk = c

CompletesNow(t, c) ==
    pc[t] = "now_read" /\ loc[t].clk = c /\ pc'[t] = "idle"

\* what a step does to clock c where a panic is concerned
PoisonStep(c) ==
    \* a read whose sum is out of range panics and poisons the lock
    /\ \A t \in Threads :
          (CompletesNow(t, c)
             /\ ~TickInRange(clocks[c].local_epoch.inner + clocks[c].elapsed))
            => clocks'[c].poisoned /\ ret'.out = PanicVal
    \* no advance goes on to write a sum that is out of range
    /\ \A t \in Threads :
          (pc'[t] = "advance_write" /\ loc'[t].clk = c)
            => loc'[t].tmp <= DurMax
    \* the step that poisons the lock is a call on c that panics; it leaves
    \* the offset as it was and the lock free
    /\ (~clocks[c].poisoned /\ clocks'[c].poisoned)
         => /\ ret'.out = PanicVal
            /\ ret'.clk = c
            /\ clocks'[c].elapsed = clocks[c].elapsed
            /\ clocks'[c].lock = 0
    \* a poisoned lock stays poisoned, is never taken again, and the offset
    \* stays as it was
    /\ clocks[c].poisoned
         => /\ clocks'[c] = clocks[c]
            /\ \A t \in Threads : loc'[t].clk = c => loc[t].clk = c

\* C18: an advance that would overflow the offset and a now() whose sum is
\* out of range panic and poison the lock with the offset unchanged, and
\* every call of now() or advance() on the clock that completes after that,
\* through any handle, panics
PanicPoisons ==
    /\ [][\A c \in ClockIds : PoisonStep(c)]_vars
    /\ [](\A c \in ClockIds : clocks[c].elapsed <= DurMax)
    /\ []((ret.op \in {"now", "advance"} /\ ret.clk > 0
             /\ clocks[ret.clk].poisoned) => ret.out = PanicVal)

PanicPoisonsReached ==
    /\ OnMock("now")
    /\ ret.via > 0
    /\ ret.out = PanicVal
    /\ clocks[ret.clk].poisoned
    /\ clocks[ret.clk].elapsed > 0
    /\ TickInRange(clocks[ret.clk].local_epoch.inner + clocks[ret.clk].elapsed)

=============================================================================
